---- MODULE Spec2Model ----
(***************************************************************************)
(* cs, the Claude Code session manager (src/src/main.rs).                  *)
(*                                                                         *)
(* One invocation of the binary is a process: it scans its arguments,      *)
(* derives the session UUID of the workspace, reads and rewrites the       *)
(* session database file and hands off to the claude CLI.  The database    *)
(* file is kept as the text it holds on disk; every filesystem call of     *)
(* an invocation is one step.                                              *)
(***************************************************************************)
EXTENDS Integers, Sequences, FiniteSets, TLC

\* ------------------------------------------------------------------------
\* Bounds of the model
\* ------------------------------------------------------------------------
NProcs == 2          \* invocation slots (the sequential specs use slot 1)
MaxArgs == 3         \* longest command line of the argument-scan spec
MaxLines == 2        \* most lines of a database file a run may start from

Procs == 1..NProcs

\* ------------------------------------------------------------------------
\* Flag tables of the program
\* ------------------------------------------------------------------------
CLAUDE_BOOL_FLAGS ==
    { "--allow-dangerously-skip-permissions", "--chrome", "-c", "--continue",
      "--dangerously-skip-permissions", "--disable-slash-commands",
      "--fork-session", "--ide", "--include-partial-messages", "--mcp-debug",
      "--no-chrome", "--no-session-persistence", "-p", "--print",
      "--replay-user-messages", "--strict-mcp-config", "--verbose" }

CLAUDE_VALUE_FLAGS ==
    { "--add-dir", "--agent", "--agents", "--allowed-tools", "--allowedTools",
      "--append-system-prompt", "--betas", "-d", "--debug",
      "--disallowed-tools", "--disallowedTools", "--fallback-model", "--file",
      "--input-format", "--json-schema", "--max-budget-usd", "--mcp-config",
      "--model", "--output-format", "--permission-mode", "--plugin-dir",
      "--setting-sources", "--settings", "--system-prompt", "--tools" }

CLAUDE_SUBCOMMANDS ==
    { "doctor", "install", "mcp", "plugin", "setup-token", "update" }

\* ------------------------------------------------------------------------
\* String operations of the standard library, on TLA+ strings
\* ------------------------------------------------------------------------
Whitespace == { " ", "\t", "\r", "\n" }

\* position of the first c in s from position k on, 0 when there is none
RECURSIVE IndexOf(_, _, _)
IndexOf(s, c, k) ==
    IF k > Len(s) THEN 0
    ELSE IF SubSeq(s, k, k) = c THEN k
    ELSE IndexOf(s, c, k + 1)

\* str::contains(char)
StrContains(s, c) == IndexOf(s, c, 1) # 0

\* str::split(c).next(): the text before the first c (all of s without c)
SplitFirst(s, c) ==
    LET n == IndexOf(s, c, 1)
    IN  IF n = 0 THEN s ELSE SubSeq(s, 1, n - 1)

\* str::starts_with(char)
StartsWith(s, c) == Len(s) > 0 /\ Head(s) = c

RECURSIVE TrimStart(_)
TrimStart(s) ==
    IF Len(s) > 0 /\ Head(s) \in Whitespace THEN TrimStart(Tail(s)) ELSE s

RECURSIVE TrimEnd(_)
TrimEnd(s) ==
    IF Len(s) > 0 /\ SubSeq(s, Len(s), Len(s)) \in Whitespace
    THEN TrimEnd(SubSeq(s, 1, Len(s) - 1))
    ELSE s

\* str::trim
Trim(s) == TrimEnd(TrimStart(s))

\* one line of str::lines / BufRead::lines: a trailing "\r" is not part of it
StripCR(s) ==
    IF Len(s) > 0 /\ SubSeq(s, Len(s), Len(s)) = "\r"
    THEN SubSeq(s, 1, Len(s) - 1)
    ELSE s

\* str::lines: split at "\n"; text after the last "\n" is a line unless empty
\* and keeps a trailing "\r"
RECURSIVE Lines(_)
Lines(s) ==
    LET n == IndexOf(s, "\n", 1)
    IN  IF Len(s) = 0 THEN << >>
        ELSE IF n = 0 THEN << s >>
        ELSE << StripCR(SubSeq(s, 1, n - 1)) >>
                 \o Lines(SubSeq(s, n + 1, Len(s)))

\* [&str]::join("\n")
RECURSIVE Join(_)
Join(ls) ==
    IF Len(ls) = 0 THEN ""
    ELSE IF Len(ls) = 1 THEN ls[1]
    ELSE ls[1] \o "\n" \o Join(Tail(ls))

Range(f) == { f[k] : k \in DOMAIN f }

\* ------------------------------------------------------------------------
\* Identity: generate_uuid5
\* ------------------------------------------------------------------------
DEFAULT_NAMESPACE ==
    << 107, 167, 184, 16, 157, 173, 17, 209, 128, 180, 0, 192, 79, 212, 48, 200 >>

\* the namespace abcdef01-2345-6789-abcd-ef0123456789, the override of the
\* model's CS_NAMESPACE values
CustomNamespace ==
    << 171, 205, 239, 1, 35, 69, 103, 137, 171, 205, 239, 1, 35, 69, 103, 137 >>

\* Sha1::finalize over namespace bytes followed by the name's bytes, under
\* the override namespace of the model
Sha1DigestCustom(name) ==
    CASE name = "cs" ->
           << 52, 169, 10, 195, 74, 245, 33, 8, 198, 220, 114, 171, 56, 92,
              103, 134, 243, 86, 114, 45 >>
      [] name = "cs+main" ->
           << 249, 125, 36, 169, 10, 154, 1, 64, 53, 56, 223, 43, 246, 210,
              169, 214, 164, 233, 200, 191 >>
      [] name = "cs+main+main" ->
           << 224, 37, 7, 31, 76, 194, 84, 251, 51, 78, 204, 125, 138, 46, 99,
              85, 119, 229, 147, 20 >>
      [] name = "claude-code-resumer+main" ->
           << 138, 62, 40, 12, 157, 95, 228, 101, 218, 162, 56, 144, 104, 160,
              121, 190, 226, 243, 83, 207 >>

\* Sha1::finalize over namespace bytes followed by the name's bytes: the
\* SHA-1 digests of the session names of the model under DEFAULT_NAMESPACE
Sha1DigestDefault(name) ==
    CASE name = "cs" ->
           << 118, 45, 66, 245, 30, 34, 64, 190, 11, 4, 0, 200, 217, 63, 233,
              202, 33, 13, 140, 3 >>
      [] name = "cs+main" ->
           << 123, 193, 189, 123, 114, 73, 15, 65, 103, 51, 165, 216, 123, 227,
              34, 59, 125, 142, 39, 138 >>
      [] name = "cs+main+main" ->
           << 12, 88, 89, 228, 28, 2, 11, 191, 19, 124, 158, 20, 140, 75, 185,
              103, 200, 175, 163, 137 >>
      [] name = "claude-code-resumer+main" ->
           << 175, 225, 156, 97, 213, 63, 136, 28, 24, 92, 86, 233, 218, 244,
              230, 61, 228, 155, 131, 206 >>

Sha1Digest(namespace, name) ==
    CASE namespace = DEFAULT_NAMESPACE -> Sha1DigestDefault(name)
      [] namespace = CustomNamespace -> Sha1DigestCustom(name)

HexDigits ==
    << "0", "1", "2", "3", "4", "5", "6", "7",
       "8", "9", "a", "b", "c", "d", "e", "f" >>

\* {:02x} of one byte
Hex2(b) == HexDigits[(b \div 16) + 1] \o HexDigits[(b % 16) + 1]

\* zero-padded lowercase hex of the big-endian integer made of bytes
\* bs[from..to] ({:08x}, {:04x}, {:012x} take 4, 2 and 6 bytes)
RECURSIVE HexOf(_, _, _)
HexOf(bs, from, to) ==
    IF from > to THEN "" ELSE Hex2(bs[from]) \o HexOf(bs, from + 1, to)

\* the copy of hash[..16] with the version set and the variant left alone
VersionBitsOnly(hash) ==
    [ k \in 1..16 |-> IF k = 7 THEN (hash[k] % 16) + 80 ELSE hash[k] ]

\* bytes[6] = (bytes[6] & 0x0f) | 0x50; bytes[8] = (bytes[8] & 0x3f) | 0x80
\* (the source counts bytes from 0, the model from 1)
VersionBits(hash) ==
    [ k \in 1..16 |->
        IF k = 7 THEN (hash[k] % 16) + 80
        ELSE IF k = 9 THEN (hash[k] % 64) + 128
        ELSE hash[k] ]

\* the format! of generate_uuid5: 8-4-4-4-12 groups of the 16 bytes
FormatUuid(bytes) ==
    HexOf(bytes, 1, 4) \o "-" \o HexOf(bytes, 5, 6) \o "-"
      \o HexOf(bytes, 7, 8) \o "-" \o HexOf(bytes, 9, 10) \o "-"
      \o HexOf(bytes, 11, 16)

\* generate_uuid5 from the digest on: copy of hash[..16], version and
\* variant bits, format!
UuidOfDigest(hash) == FormatUuid(VersionBits(hash))

\* char::is_ascii_hexdigit, and the digit's value in radix 16
HexChars == "0123456789abcdefABCDEF"

IsHexDigit(c) == IndexOf(HexChars, c, 1) # 0

HexValue(c) ==
    LET n == IndexOf(HexChars, c, 1)
    IN  IF n <= 16 THEN n - 1 ELSE n - 7

\* uuid_str.chars().filter(|c| c.is_ascii_hexdigit()).collect()
RECURSIVE FilterHex(_)
FilterHex(s) ==
    IF Len(s) = 0 THEN ""
    ELSE (IF IsHexDigit(SubSeq(s, 1, 1)) THEN SubSeq(s, 1, 1) ELSE "")
           \o FilterHex(SubSeq(s, 2, Len(s)))

\* Option<[u8; 16]>
None == [ ok |-> FALSE, val |-> << >> ]
Some(v) == [ ok |-> TRUE, val |-> v ]

\* parse_uuid: the hex digits of the string, two per byte, when there are 32
parse_uuid(uuid_str) ==
    LET hex == FilterHex(uuid_str)
    IN  IF Len(hex) # 32 THEN None
        ELSE Some([ k \in 1..16 |->
                      16 * HexValue(SubSeq(hex, 2 * k - 1, 2 * k - 1))
                        + HexValue(SubSeq(hex, 2 * k, 2 * k)) ])

\* get_namespace: cs_namespace is env::var("CS_NAMESPACE"), a record
\* [ok, val]; the default when it is unset or does not parse
get_namespace(cs_namespace) ==
    IF cs_namespace.ok /\ parse_uuid(cs_namespace.val).ok
    THEN parse_uuid(cs_namespace.val).val
    ELSE DEFAULT_NAMESPACE

generate_uuid5(cs_namespace, name) ==
    UuidOfDigest(Sha1Digest(get_namespace(cs_namespace), name))

\* ------------------------------------------------------------------------
\* The session database file and its operations
\* ------------------------------------------------------------------------
NoFile == [ exists |-> FALSE, content |-> "" ]

\* load_sessions: trimmed non-blank lines as a set; no file, no sessions
\* load_sessions that keeps only the identifiers held by exactly one line
load_sessions_unique(f) == IF f.exists THEN { id \in { Trim(Lines(f.content)[k]) : k \in DOMAIN Lines(f.content) } \ { "" } : Cardinality({ k \in DOMAIN Lines(f.content) : Trim(Lines(f.content)[k]) = id }) = 1 } ELSE { }

load_sessions(f) ==
    LET ls == Lines(f.content)
    IN  IF f.exists
        THEN { Trim(ls[k]) : k \in DOMAIN ls } \ { "" }
        ELSE { }

\* save_session with OpenOptions lacking create(true): a missing file stays
\* missing
save_session_no_create(f, uuid) ==
    IF f.exists
    THEN [ exists |-> TRUE, content |-> f.content \o uuid \o "\n" ]
    ELSE f

\* save_session opening the file with truncate instead of append
save_session_truncate(f, uuid) == [ exists |-> TRUE, content |-> uuid \o "\n" ]

\* save_session: create the file if missing and append the line
save_session(f, uuid) ==
    [ exists |-> TRUE, content |-> f.content \o uuid \o "\n" ]

\* remove_session's filter dropping only the first line that holds uuid
RECURSIVE DropFirst(_, _)
DropFirst(ls, uuid) ==
    IF ls = << >> THEN << >>
    ELSE IF Trim(Head(ls)) = uuid THEN Tail(ls)
    ELSE << Head(ls) >> \o DropFirst(Tail(ls), uuid)

RemoveFilterFirstOnly(content, uuid) ==
    LET filtered == DropFirst(Lines(content), uuid)
    IN  IF filtered = << >> THEN "" ELSE Join(filtered) \o "\n"

\* remove_session writing the kept lines one after the other, unseparated
RECURSIVE Concat(_)
Concat(ls) == IF ls = << >> THEN "" ELSE Head(ls) \o Concat(Tail(ls))

RemoveFilterUnseparated(content, uuid) == IF SelectSeq(Lines(content), LAMBDA line : Trim(line) # uuid) = << >> THEN "" ELSE Concat(SelectSeq(Lines(content), LAMBDA line : Trim(line) # uuid)) \o "\n"

\* the text remove_session writes back
RemoveFilter(content, uuid) ==
    LET filtered == SelectSeq(Lines(content), LAMBDA line : Trim(line) # uuid)
    IN  IF filtered = << >> THEN "" ELSE Join(filtered) \o "\n"

\* remove_session run without interruption
remove_session(f, uuid) ==
    IF f.exists
    THEN [ exists |-> TRUE, content |-> RemoveFilter(f.content, uuid) ]
    ELSE f

\* clear_sessions truncating the file instead of deleting it
clear_sessions_truncate(f) ==
    IF f.exists
    THEN [ file |-> [ exists |-> TRUE, content |-> "" ],
           report |-> "Session database cleared." ]
    ELSE [ file |-> f, report |-> "Session database already empty." ]

\* clear_sessions: the file after it and the message printed
clear_sessions(f) ==
    IF f.exists
    THEN [ file |-> NoFile, report |-> "Session database cleared." ]
    ELSE [ file |-> f, report |-> "Session database already empty." ]

\* ------------------------------------------------------------------------
\* Environment of an invocation
\* ------------------------------------------------------------------------
Ok(v) == [ ok |-> TRUE, val |-> v ]
Err == [ ok |-> FALSE, val |-> "" ]

\* working directories (final path component) and git branches of the model
Folders == { "cs", "cs+main" }
Branches == { "main" }

\* CS_NAMESPACE of the session specs: unset
NoNamespace == { Err }

CwdResults == { Ok(d) : d \in Folders } \cup { Err }
GitResults == { Ok(b) : b \in Branches } \cup { Err }

\* a session name that leaves the branch out
SessionNameFolderOnly(folder_name, git) == folder_name

\* session name of a workspace: folder+branch in a git repository, else folder
SessionName(folder_name, git) ==
    IF git.ok THEN folder_name \o "+" \o git.val ELSE folder_name

SessionNames ==
    { SessionName(d, g) : d \in Folders, g \in GitResults }

Uuids == { generate_uuid5(Err, n) : n \in SessionNames }

\* ------------------------------------------------------------------------
\* State
\* ------------------------------------------------------------------------
VARIABLES
    file,     \* the session database file: [exists, content]
    proc      \* proc[p]: the local state of invocation p

vars == << file, proc >>

\* An invocation that has not started.  The fields are the locals of main;
\* pc is its position, exit_code the process exit status (-1 while running),
\* outcome what the run turned out to be.  before (the database file when
\* the invocation started) and db_accessed (main has opened or deleted the
\* database file) are history fields.
IdleProc ==
    [ pc |-> "idle", args |-> << >>, i |-> 1,
      dry_run |-> FALSE, force_create |-> FALSE,
      reset_mode |-> FALSE, resume_mode |-> FALSE,
      passthrough_args |-> << >>,
      cs_namespace |-> Err, cwd |-> Err, git |-> Err,
      session_name |-> "", hash |-> << >>, session_uuid |-> "",
      is_git_repo |-> FALSE,
      content |-> "", session_exists |-> FALSE, status_display |-> "",
      claude_args |-> << >>, listed |-> { }, report |-> "",
      exit_code |-> -1, outcome |-> "none",
      before |-> NoFile, db_accessed |-> FALSE, fault |-> "none" ]

Terminal == { "exited", "launched" }

\* process::exit(code), or return from main with code 0
Exit(r, code, what) ==
    [ r EXCEPT !.pc = "exited", !.exit_code = code, !.outcome = what ]

\* What the file system refuses during a run: with "readonly" the database
\* file can be read but neither written nor deleted, with "noaccess" it
\* cannot be opened at all.
Faults == { "readonly", "noaccess" }

\* File::open in load_sessions fails
OpenFails(r) == r.fault = "noaccess"

\* opening for append in save_session and fs::write in remove_session fail
WriteFails(r) == r.fault # "none"

\* fs::remove_file fails with an error other than NotFound
RemoveFileFails(r, f) ==
    r.fault = "noaccess" \/ (r.fault = "readonly" /\ f.exists)

\* ------------------------------------------------------------------------
\* Inputs
\* ------------------------------------------------------------------------
ModeFlagOrder == << "--dry-run", "--force", "--reset", "--resume" >>

\* command lines of the session specs: every set of mode flags, the list
\* and clear directives
SessionArgs ==
    { SelectSeq(ModeFlagOrder, LAMBDA t : t \in S) :
        S \in SUBSET Range(ModeFlagOrder) }
      \cup { << "--list" >>, << "--clear" >> }

\* tokens of the argument-scan spec: one or two of every class of the scan
ScanTokens ==
    { "--help", "--clear", "--dry-run", "-f", "--reset", "--resume",
      "--session-id", "--verbose", "--model", "--model=opus", "hello",
      "--bogus" }

ScanArgs == UNION { [ 1..n -> ScanTokens ] : n \in 0..MaxArgs }

\* tokens of the command spec: claude subcommands, the directives of cs, and
\* tokens of the other classes that may stand before or after them
CmdTokens ==
    { "mcp", "update", "--help", "-v", "--list", "--clear", "upgrade",
      "--session-id", "--bogus", "hello", "--reset" }

CmdArgs == UNION { [ 1..n -> CmdTokens ] : n \in 0..MaxArgs }

\* tokens of the error spec: the four kinds of erroneous token, with the
\* reset flag and a positional
ErrTokens ==
    { "--reset", "--session-id", "--bogus", "--bogus=1", "--model", "hello" }

ErrArgs == UNION { [ 1..n -> ErrTokens ] : n \in 0..MaxArgs }

\* tokens of the mode spec: every spelling of the mode flags, a claude
\* boolean flag and a positional
ModeTokens ==
    { "--dry-run", "-n", "--force", "-f", "--reset", "--resume", "-R",
      "--verbose", "hello" }

ModeArgs == UNION { [ 1..n -> ModeTokens ] : n \in 0..MaxArgs }

\* tokens of the token spec: key=value tokens with every kind of key, and
\* tokens that do not start with "-"
TokTokens ==
    { "--model=opus", "--model=a=b", "--verbose=1", "--session-id=x",
      "--force=x", "--bogus=1", "a=b", "hello", "upgrade", "mcp",
      "--reset" }

TokArgs == UNION { [ 1..n -> TokTokens ] : n \in 0..MaxArgs }

\* command lines and CS_NAMESPACE values of the identity spec
IdArgs ==
    { << >>, << "--force", "hello" >>, << "--reset", "--dry-run" >> }

IdNamespaces == { Err, Ok("abcdef01-2345-6789-abcd-ef0123456789") }

\* CS_NAMESPACE values of the namespace spec: spellings of the override and
\* of the default namespace, and strings that are not 32 hex digits
NamespaceStrings ==
    { "abcdef01-2345-6789-abcd-ef0123456789",
      "abcdef0123456789abcdef0123456789",
      "ABCDEF01-2345-6789-ABCD-EF0123456789",
      "AbCdEf0123456789aBcDeF0123456789",
      "6ba7b810-9dad-11d1-80b4-00c04fd430c8",
      "",
      "abcdef01",
      "abcdef0123456789abcdef01234567890",
      "gbcdef0123456789abcdef0123456789",
      "zzzzzzzz-zzzz-zzzz-zzzz-zzzzzzzzzzzz",
      "abcdef01-2345-6789-abcd-ef0123456789zz",
      "{abcdef01-2345-6789-abcd-ef0123456789}" }

NamespaceInputs == { Err } \cup { Ok(t) : t \in NamespaceStrings }

NsArgs == { << >>, << "--reset" >>, << "--dry-run" >> }

\* SHA-1 digests of the rendering spec: every value of the byte that gets
\* the version with the edge values of the byte that gets the variant, and
\* the other way round, in digests whose other bytes are all 0x00, all
\* 0xff, or 0x11, 0x22, ... in turn
Bytes == 0..255

EdgeBytes == { 0, 15, 16, 63, 64, 80, 127, 128, 191, 192, 240, 255 }

DigestFills ==
    { [ k \in 1..20 |-> 0 ], [ k \in 1..20 |-> 255 ],
      [ k \in 1..20 |-> (17 * k) % 256 ] }

Digests ==
    { [ fill EXCEPT ![7] = pair[1], ![9] = pair[2] ] :
        fill \in DigestFills,
        pair \in (Bytes \X EdgeBytes) \cup (EdgeBytes \X Bytes) }

\* database files a run may find: no file, or up to MaxLines lines of
\* session UUIDs (unsynchronised invocations can leave a UUID twice)
RECURSIVE WriteLines(_)
WriteLines(ls) ==
    IF Len(ls) = 0 THEN "" ELSE ls[1] \o "\n" \o WriteLines(Tail(ls))

RegistryContents ==
    { NoFile } \cup
    { [ exists |-> TRUE, content |-> WriteLines(ls) ] :
        ls \in UNION { [ 1..n -> Uuids ] : n \in 0..MaxLines } }

\* ------------------------------------------------------------------------
\* Steps of main
\* ------------------------------------------------------------------------

\* main without the subcommand check
StartNoBypass(p, argsets, namespaces, cwds, gits) ==
    /\ proc[p].pc = "idle"
    /\ \E a \in argsets, ns \in namespaces, c \in cwds, g \in gits :
         proc' = [ proc EXCEPT ![p] =
             [ IdleProc EXCEPT !.args = a, !.cs_namespace = ns, !.cwd = c,
                               !.git = g, !.before = file, !.pc = "scan" ] ]
    /\ UNCHANGED file

\* A new invocation: env::args, the CS_NAMESPACE, working directory and git
\* branch it will find, and the subcommand check of main (a subcommand as
\* first argument goes to claude with the whole command line).
Start(p, argsets, namespaces, cwds, gits) ==
    /\ proc[p].pc = "idle"
    /\ \E a \in argsets, ns \in namespaces, c \in cwds, g \in gits :
         LET r == [ IdleProc EXCEPT !.args = a, !.cs_namespace = ns,
                                    !.cwd = c, !.git = g, !.before = file ]
         IN  proc' = [ proc EXCEPT ![p] =
                 IF Len(a) > 0 /\ a[1] \in CLAUDE_SUBCOMMANDS
                 THEN [ r EXCEPT !.pc = "launch", !.claude_args = a,
                                 !.outcome = "Subcommand" ]
                 ELSE [ r EXCEPT !.pc = "scan" ] ]
    /\ UNCHANGED file

\* The arms of the match on args[i]; r is the invocation's state, the
\* result its state after the arm (and the i += 1 that ends the iteration).
Advance(r) == [ r EXCEPT !.i = r.i + 1 ]

PassThrough(r, tokens) ==
    [ r EXCEPT !.passthrough_args = r.passthrough_args \o tokens ]

\* "--list" | "-l": list_sessions and return
ListArm(r, f) ==
    [ Exit(r, 0, "ListRegistry") EXCEPT
        !.listed = IF OpenFails(r) THEN { } ELSE load_sessions(f),
        !.db_accessed = TRUE ]

\* "--clear" that notes its report and lets the scan go on
ClearArmDeferred(r, f) ==
    [ r EXCEPT !.report = "deferred", !.i = r.i + 1 ]

\* "--clear": clear_sessions and return; the third arm of clear_sessions
\* prints the error and returns like the other two
ClearArm(r, f) ==
    [ Exit(r, 0, "ClearRegistry") EXCEPT
        !.report = IF RemoveFileFails(r, f)
                   THEN "Error clearing database"
                   ELSE clear_sessions(f).report,
        !.db_accessed = TRUE ]

\* "upgrade" | "-U": return after self_update, exit(1) when it failed
UpgradeArm(r, updated) == Exit(r, IF updated THEN 0 ELSE 1, "SelfUpdate")

\* a mode flag that flips its boolean
ModeFlagArmToggle(r, mode) ==
    [ r EXCEPT ![mode] = ~r[mode], !.i = r.i + 1 ]

\* a mode flag of cs: mode (dry_run, force_create, reset_mode or
\* resume_mode) = true
ModeFlagArm(r, mode) == Advance([ r EXCEPT ![mode] = TRUE ])

\* "--session-id" forwarded like any other token
BlockedArmForwarded(r) ==
    [ r EXCEPT !.passthrough_args = Append(r.passthrough_args, r.args[r.i]),
               !.i = r.i + 1 ]

\* "--session-id" dropped from the command line, the scan going on
BlockedArmSkipped(r) == [ r EXCEPT !.i = r.i + 1 ]

\* "--session-id": refused
BlockedArm(r) == Exit(r, 1, "Error")

\* a claude boolean flag
BoolFlagArm(r) == Advance(PassThrough(r, << r.args[r.i] >>))

\* a value flag forwarded alone, its value left to the next iteration
ValueFlagArmNoValue(r) ==
    [ r EXCEPT !.passthrough_args = Append(r.passthrough_args, r.args[r.i]),
               !.i = r.i + 1 ]

\* a value flag that may go without its value
ValueFlagArmLenient(r) ==
    IF r.i + 1 <= Len(r.args)
    THEN [ r EXCEPT !.passthrough_args =
                        r.passthrough_args \o SubSeq(r.args, r.i, r.i + 1),
                    !.i = r.i + 2 ]
    ELSE [ r EXCEPT !.passthrough_args = Append(r.passthrough_args, r.args[r.i]),
                    !.i = r.i + 1 ]

\* a claude value flag: the flag, then i += 1 and the value or the error
ValueFlagArm(r) ==
    LET pushed == Advance(PassThrough(r, << r.args[r.i] >>))
    IN  IF pushed.i <= Len(r.args)
        THEN Advance(PassThrough(pushed, << r.args[pushed.i] >>))
        ELSE Exit(pushed, 1, "Error")

\* --flag=value forwarded whatever the flag
EqualsArmUnchecked(r) ==
    [ r EXCEPT !.passthrough_args = Append(r.passthrough_args, r.args[r.i]),
               !.i = r.i + 1 ]

\* --flag=value
EqualsArm(r) ==
    LET key == SplitFirst(r.args[r.i], "=")
    IN  IF key \in CLAUDE_VALUE_FLAGS \/ key \in CLAUDE_BOOL_FLAGS
        THEN Advance(PassThrough(r, << r.args[r.i] >>))
        ELSE Exit(r, 1, "Error")

\* a positional argument that is swallowed
PositionalArmDropped(r) == [ r EXCEPT !.i = r.i + 1 ]

\* a positional argument (the prompt)
PositionalArm(r) == Advance(PassThrough(r, << r.args[r.i] >>))

\* an unknown flag that is skipped
UnknownArmIgnored(r) == [ r EXCEPT !.i = r.i + 1 ]

\* an unknown flag
UnknownArm(r) == Exit(r, 1, "Error")

\* the match on args[i], arms in the order of the source
Classify(r, f, updated) ==
    LET arg == r.args[r.i] IN
    IF arg \in { "--help", "-h" } THEN Exit(r, 0, "Help")
    ELSE IF arg \in { "--version", "-v" } THEN Exit(r, 0, "Version")
    ELSE IF arg \in { "--list", "-l" } THEN ListArm(r, f)
    ELSE IF arg = "--clear" THEN ClearArm(r, f)
    ELSE IF arg \in { "upgrade", "-U" } THEN UpgradeArm(r, updated)
    ELSE IF arg \in { "--dry-run", "-n" } THEN ModeFlagArm(r, "dry_run")
    ELSE IF arg \in { "--force", "-f" } THEN ModeFlagArm(r, "force_create")
    ELSE IF arg = "--reset" THEN ModeFlagArm(r, "reset_mode")
    ELSE IF arg \in { "--resume", "-R" } THEN ModeFlagArm(r, "resume_mode")
    ELSE IF arg = "--session-id" THEN BlockedArm(r)
    ELSE IF arg \in CLAUDE_BOOL_FLAGS THEN BoolFlagArm(r)
    ELSE IF arg \in CLAUDE_VALUE_FLAGS THEN ValueFlagArm(r)
    ELSE IF StrContains(arg, "=") THEN EqualsArm(r)
    ELSE IF ~StartsWith(arg, "-") THEN PositionalArm(r)
    ELSE UnknownArm(r)

\* One iteration of the argument loop.  self_update is the only arm whose
\* result is not decided by the state: it succeeds or fails.
ScanStep(p) ==
    LET r == proc[p] IN
    /\ r.pc = "scan"
    /\ r.i <= Len(r.args)
    /\ \E updated \in IF r.args[r.i] \in { "upgrade", "-U" }
                      THEN BOOLEAN ELSE { TRUE } :
         proc' = [ proc EXCEPT ![p] = Classify(r, file, updated) ]
    /\ file' = IF /\ Classify(r, file, TRUE).outcome = "ClearRegistry"
                  /\ ~RemoveFileFails(r, file)
               THEN clear_sessions(file).file
               ELSE file

\* The steps after the loop with an identifier that leaves the branch out
\* when --force was given
ResolveByFlags(p) ==
    LET r == proc[p]
        name == SessionName(r.cwd.val, r.git)
    IN
    /\ r.pc = "scan"
    /\ r.i > Len(r.args)
    /\ proc' = [ proc EXCEPT ![p] =
           IF ~r.cwd.ok
           THEN Exit(r, 1, "Error")
           ELSE [ r EXCEPT !.session_name = name,
                           !.is_git_repo = r.git.ok,
                           !.session_uuid =
                               generate_uuid5(r.cs_namespace,
                                   IF r.force_create THEN r.cwd.val
                                   ELSE name),
                           !.outcome = "RunSession",
                           !.pc = IF r.reset_mode THEN "remove_read"
                                  ELSE "load" ] ]
    /\ UNCHANGED file

\* After the loop: get_folder_name, get_git_branch, generate_uuid5.
Resolve(p) ==
    LET r == proc[p]
        name == SessionName(r.cwd.val, r.git)
    IN
    /\ r.pc = "scan"
    /\ r.i > Len(r.args)
    /\ proc' = [ proc EXCEPT ![p] =
           IF ~r.cwd.ok
           THEN Exit(r, 1, "Error")
           ELSE [ r EXCEPT !.session_name = name,
                           !.is_git_repo = r.git.ok,
                           !.session_uuid =
                               generate_uuid5(r.cs_namespace, name),
                           !.outcome = "RunSession",
                           !.pc = IF r.reset_mode THEN "remove_read"
                                  ELSE "load" ] ]
    /\ UNCHANGED file

\* remove_session, first half: fs::read_to_string (nothing more on failure).
RemoveRead(p) ==
    LET r == proc[p] IN
    /\ r.pc = "remove_read"
    /\ proc' = [ proc EXCEPT ![p] =
           IF file.exists /\ ~OpenFails(r)
           THEN [ r EXCEPT !.content = file.content, !.db_accessed = TRUE,
                           !.pc = "remove_write" ]
           ELSE [ r EXCEPT !.db_accessed = TRUE, !.pc = "load" ] ]
    /\ UNCHANGED file

\* remove_session, second half: fs::write of the filtered lines.
RemoveWrite(p) ==
    LET r == proc[p] IN
    /\ r.pc = "remove_write"
    /\ file' = IF WriteFails(r)
               THEN file
               ELSE [ exists |-> TRUE,
                      content |-> RemoveFilter(r.content, r.session_uuid) ]
    /\ proc' = [ proc EXCEPT ![p] = [ r EXCEPT !.content = "", !.pc = "load" ] ]

\* a status label that looks at the registry alone
StatusDisplayByExistence(resume_mode, force_create, reset_mode, session_exists) ==
    IF resume_mode THEN "resume-with-picker"
    ELSE IF session_exists THEN "exists"
    ELSE "new"

\* status_display of main
StatusDisplay(resume_mode, force_create, reset_mode, session_exists) ==
    IF resume_mode THEN "resume-with-picker"
    ELSE IF force_create \/ reset_mode THEN "force-create"
    ELSE IF session_exists THEN "exists"
    ELSE "new"

\* load_sessions, the status box and the dry-run return.
Load(p) ==
    LET r == proc[p]
        exists == ~OpenFails(r) /\ r.session_uuid \in load_sessions(file)
        shown == [ r EXCEPT
                     !.session_exists = exists,
                     !.status_display =
                         StatusDisplay(r.resume_mode, r.force_create,
                                       r.reset_mode, exists),
                     !.db_accessed = TRUE ]
    IN
    /\ r.pc = "load"
    /\ proc' = [ proc EXCEPT ![p] =
           IF r.dry_run
           THEN [ shown EXCEPT !.pc = "exited", !.exit_code = 0 ]
           ELSE [ shown EXCEPT !.pc = "decide" ] ]
    /\ UNCHANGED file

\* the directive with the create test ahead of the resume test
DirectiveCreateFirst(resume_mode, force_create, reset_mode, session_exists) ==
    IF force_create \/ reset_mode \/ ~session_exists THEN "--session-id"
    ELSE IF resume_mode THEN "--resume"
    ELSE "-r"

\* the directive main puts in front of the pass-through arguments
Directive(resume_mode, force_create, reset_mode, session_exists) ==
    IF resume_mode THEN "--resume"
    ELSE IF force_create \/ reset_mode \/ ~session_exists THEN "--session-id"
    ELSE "-r"

\* save_session called for the known identifier instead of the new one
SavesSessionWhenKnown(resume_mode, force_create, reset_mode, session_exists) ==
    /\ ~resume_mode
    /\ force_create \/ reset_mode \/ ~session_exists
    /\ session_exists

\* save_session called in resume mode too
SavesSessionDespiteResume(resume_mode, force_create, reset_mode, session_exists) ==
    ~session_exists

\* save_session called on the whole create path, known identifier or not
SavesSessionAlways(resume_mode, force_create, reset_mode, session_exists) ==
    /\ ~resume_mode
    /\ force_create \/ reset_mode \/ ~session_exists

\* whether main calls save_session
SavesSession(resume_mode, force_create, reset_mode, session_exists) ==
    /\ ~resume_mode
    /\ force_create \/ reset_mode \/ ~session_exists
    /\ ~session_exists

\* The choice of claude_args, with save_session on the create path.
Decide(p) ==
    LET r == proc[p]
        d == Directive(r.resume_mode, r.force_create, r.reset_mode,
                       r.session_exists)
    IN
    /\ r.pc = "decide"
    /\ file' = IF /\ SavesSession(r.resume_mode, r.force_create,
                                  r.reset_mode, r.session_exists)
                  /\ ~WriteFails(r)
               THEN save_session(file, r.session_uuid)
               ELSE file
    /\ proc' = [ proc EXCEPT ![p] =
           [ r EXCEPT !.claude_args =
                          << d, r.session_uuid >> \o r.passthrough_args,
                      !.pc = "launch" ] ]

\* launch_claude_owned: claude replaces the process, or is not found
\* (exit 127), or the exec fails otherwise (exit 1).
\* a launch that takes the identifier it saved out of the database again
\* when claude could not be started
LaunchUndoingSave(p) ==
    LET r == proc[p] IN
    /\ r.pc = "launch"
    /\ \/ /\ proc' = [ proc EXCEPT ![p] = [ r EXCEPT !.pc = "launched" ] ]
          /\ UNCHANGED file
       \/ /\ \E code \in { 127, 1 } :
                proc' = [ proc EXCEPT ![p] =
                    [ r EXCEPT !.pc = "exited", !.exit_code = code ] ]
          /\ file' = IF r.claude_args[1] = "--session-id" /\ ~r.session_exists
                     THEN remove_session(file, r.session_uuid)
                     ELSE file

Launch(p) ==
    LET r == proc[p] IN
    /\ r.pc = "launch"
    /\ \/ proc' = [ proc EXCEPT ![p] = [ r EXCEPT !.pc = "launched" ] ]
       \/ \E code \in { 127, 1 } :
            proc' = [ proc EXCEPT ![p] =
                [ r EXCEPT !.pc = "exited", !.exit_code = code ] ]
    /\ UNCHANGED file

\* A call of generate_uuid5 whose Sha1 digest is any of digests: the
\* identifier it returns.
Derive(p, digests) ==
    /\ proc[p].pc = "idle"
    /\ \E hash \in digests :
         proc' = [ proc EXCEPT ![p] =
             [ IdleProc EXCEPT !.hash = hash,
                               !.session_uuid = UuidOfDigest(hash),
                               !.pc = "exited", !.exit_code = 0,
                               !.outcome = "Derived" ] ]
    /\ UNCHANGED file

\* The process is gone (it exited, or claude took its place and ended):
\* the slot is free for the next invocation.
Finish(p) ==
    /\ proc[p].pc \in Terminal
    /\ proc' = [ proc EXCEPT ![p] = IdleProc ]
    /\ UNCHANGED file

\* The file system starts to refuse the database file to the invocation
\* that has just started (permissions of ~/.cs or of the file).
FsFault(p) ==
    LET r == proc[p] IN
    /\ r.pc = "scan"
    /\ r.i = 1
    /\ r.fault = "none"
    /\ \E k \in Faults :
         proc' = [ proc EXCEPT ![p] = [ r EXCEPT !.fault = k ] ]
    /\ UNCHANGED file

\* the steps of one invocation, from its start to the end of its process
RunStep(p) ==
    \/ ScanStep(p)
    \/ Resolve(p)
    \/ RemoveRead(p)
    \/ RemoveWrite(p)
    \/ Load(p)
    \/ Decide(p)
    \/ Launch(p)

\* the steps of a started invocation
Step(p) ==
    \/ RunStep(p)
    \/ Finish(p)

\* ------------------------------------------------------------------------
\* Specifications
\* ------------------------------------------------------------------------
InitProc == proc = [ p \in Procs |-> IdleProc ]

\* Spec: invocations one after the other, from a machine without a database.
Init == file = NoFile /\ InitProc

Next ==
    \/ Start(1, SessionArgs, NoNamespace, CwdResults, GitResults)
    \/ Step(1)

Spec == Init /\ [][Next]_vars

\* SpecReg: invocations one after the other, from any database file.
InitReg == file \in RegistryContents /\ InitProc

SpecReg == InitReg /\ [][Next]_vars

\* SpecArgs: invocations with arbitrary command lines in one workspace.
NextArgs ==
    \/ Start(1, ScanArgs, NoNamespace, { Ok("cs") }, { Ok("main") })
    \/ Step(1)

SpecArgs == Init /\ [][NextArgs]_vars

\* SpecCmd: invocations whose command lines mix claude subcommands and the
\* directives of cs with other tokens, in one workspace.
NextCmd ==
    \/ Start(1, CmdArgs, NoNamespace, { Ok("cs") }, { Ok("main") })
    \/ Step(1)

SpecCmd == Init /\ [][NextCmd]_vars

\* SpecErr: invocations with erroneous command lines, in workspaces with
\* and without a readable working directory and git branch.
NextErr ==
    \/ Start(1, ErrArgs, NoNamespace, { Ok("cs"), Err }, GitResults)
    \/ Step(1)

SpecErr == Init /\ [][NextErr]_vars

\* SpecMode: invocations whose command lines are mode flags in every order
\* and repetition among boolean flags and positionals, in one workspace.
NextMode ==
    \/ Start(1, ModeArgs, NoNamespace, { Ok("cs") }, { Ok("main") })
    \/ Step(1)

SpecMode == Init /\ [][NextMode]_vars

\* SpecTok: invocations whose command lines are key=value tokens and tokens
\* without a leading "-", in one workspace.
NextTok ==
    \/ Start(1, TokArgs, NoNamespace, { Ok("cs") }, { Ok("main") })
    \/ Step(1)

SpecTok == Init /\ [][NextTok]_vars

\* SpecId: the record of a finished invocation is kept in slot 1 while the
\* next invocations run in slot 2, in one workspace with and without a
\* namespace override.
NextId ==
    \/ proc[2].pc = "idle"
         /\ Start(1, IdArgs, IdNamespaces, { Ok("cs") }, { Ok("main") })
    \/ proc[2].pc = "idle" /\ Step(1)
    \/ proc[1].pc \in Terminal
         /\ Start(2, IdArgs, IdNamespaces, { Ok("cs") }, { Ok("main") })
    \/ proc[1].pc \in Terminal /\ Step(2)

SpecId == Init /\ [][NextId]_vars

\* SpecNs: invocations in one workspace under every CS_NAMESPACE value of
\* the model.
NextNs ==
    \/ Start(1, NsArgs, NamespaceInputs, { Ok("cs") }, { Ok("main") })
    \/ Step(1)

SpecNs == Init /\ [][NextNs]_vars

\* SpecUuid: generate_uuid5 over the digests of the model.
NextUuid ==
    \/ Derive(1, Digests)
    \/ Finish(1)

SpecUuid == Init /\ [][NextUuid]_vars

\* SpecName: a run in the folder cs (on branch main, on branch main+main or
\* outside any repository) and, while its record is kept, the runs after it
\* in the folder cs or the folder cs+main (on branch main or outside any
\* repository).  The first run has no arguments.
NameArgs == { << >>, << "--reset" >> }

NextName ==
    \/ proc[2].pc = "idle"
         /\ Start(1, { << >> }, NoNamespace, { Ok("cs") },
                  { Ok("main"), Ok("main+main"), Err })
    \/ proc[2].pc = "idle" /\ Step(1)
    \/ proc[1].pc \in Terminal
         /\ Start(2, NameArgs, NoNamespace, { Ok("cs"), Ok("cs+main") },
                  { Ok("main"), Err })
    \/ proc[1].pc \in Terminal /\ Step(2)

SpecName == Init /\ [][NextName]_vars

\* SpecFault: invocations one after the other in the repository cs on branch
\* main, any of which may find the database file refused.
FaultArgs ==
    { << >>, << "--reset" >>, << "--force" >>, << "--list" >>, << "--clear" >> }

NextFault ==
    \/ Start(1, FaultArgs, NoNamespace, { Ok("cs") }, { Ok("main") })
    \/ FsFault(1)
    \/ Step(1)

SpecFault == InitReg /\ [][NextFault]_vars

\* SpecDirty: invocations one after the other in the repository cs on branch
\* main, from a database file with lines as an editor or another tool may
\* leave them: blank, indented, padded, ending in "\r\n", last line without
\* its "\n".
DirtyLines ==
    LET id == generate_uuid5(Err, "cs+main")
        other == generate_uuid5(Err, "cs")
    IN  { id, " " \o id \o " ", other \o "\r", "\t" \o other, "", " " }

DirtyContents ==
    { NoFile } \cup
    { [ exists |-> TRUE, content |-> Join(ls) \o end ] :
        ls \in UNION { [ 1..n -> DirtyLines ] : n \in 0..MaxLines },
        end \in { "", "\n" } }

DirtyArgs == { << >>, << "--reset" >> }

InitDirty == file \in DirtyContents /\ InitProc

NextDirty ==
    \/ Start(1, DirtyArgs, NoNamespace, { Ok("cs") }, { Ok("main") })
    \/ Step(1)

SpecDirty == InitDirty /\ [][NextDirty]_vars

\* SpecRace: two invocations at the same time, one in the repository cs on
\* branch main and one in a folder cs outside any repository, so that their
\* identifiers differ; each process runs once over the shared database file.
RaceArgs == { << >>, << "--reset" >>, << "--force" >> }

NextRace ==
    \/ Start(1, RaceArgs, NoNamespace, { Ok("cs") }, { Ok("main") })
    \/ Start(2, RaceArgs, NoNamespace, { Ok("cs") }, { Err })
    \/ \E p \in { 1, 2 } : RunStep(p)

SpecRace == InitReg /\ [][NextRace]_vars

\* SpecDup: two invocations at the same time in the same workspace, each
\* process slot running one invocation after another.
DupArgs == { << >>, << "--reset" >>, << "--list" >> }

NextDup ==
    \E p \in { 1, 2 } :
        \/ Start(p, DupArgs, NoNamespace, { Ok("cs") }, { Ok("main") })
        \/ Step(p)

SpecDup == Init /\ [][NextDup]_vars

\* ------------------------------------------------------------------------
\* Vocabulary of the properties
\* ------------------------------------------------------------------------

\* the identifier of the workspace the invocation runs in
ComputedId(r) ==
    generate_uuid5(r.cs_namespace, SessionName(r.cwd.val, r.git))

\* the session run has chosen its downstream argument vector
HandedOff(r) == r.outcome = "RunSession" /\ r.claude_args # << >>

\* the invocation is over, or only the launch of claude is left
RunOver(r) == r.pc \in { "launch", "launched", "exited" }

\* the first two elements of the downstream argument vector
Head2(r) == SubSeq(r.claude_args, 1, 2)

\* number of lines of database file f that hold identifier id
EntryCount(f, id) ==
    LET ls == Lines(f.content)
    IN  Cardinality({ k \in DOMAIN ls : Trim(ls[k]) = id })

\* a mode flag was given on the command line
Given(r, long) == long \in Range(r.args)

\* ------------------------------------------------------------------------
\* C1 (Spec).  A run without mode flags that starts from an absent or
\* empty registry takes the create path: status "new", downstream vector
\* beginning "--session-id", id, and afterwards the registry holds exactly
\* one entry, the computed identifier.  A run without mode flags that
\* starts from the registry such a first run leaves (the one line id)
\* reports "exists", begins the vector with "-r", id and leaves the
\* registry as it was.
\* ------------------------------------------------------------------------
C1_FirstRunCreatesSecondResumes ==
    \A p \in Procs :
      LET r == proc[p]
          id == ComputedId(r)
      IN  (HandedOff(r) /\ r.args = << >>) =>
            /\ load_sessions(r.before) = { } =>
                 /\ r.status_display = "new"
                 /\ Head2(r) = << "--session-id", id >>
                 /\ load_sessions(file) = { id }
                 /\ file.exists /\ file.content = id \o "\n"
            /\ (r.before.exists /\ r.before.content = id \o "\n") =>
                 /\ r.status_display = "exists"
                 /\ Head2(r) = << "-r", id >>
                 /\ file = r.before

\* the second run has handed off to claude
C1_Witness ==
    \E p \in Procs :
      LET r == proc[p] IN
        /\ r.pc = "launched" /\ HandedOff(r) /\ r.args = << >>
        /\ r.before.exists /\ r.before.content = ComputedId(r) \o "\n"
        /\ r.claude_args = << "-r", ComputedId(r) >>
        /\ file = r.before

\* ------------------------------------------------------------------------
\* C2 (SpecReg).  In a session run that is not a dry run the directive
\* follows the priority resume, then create (force or reset or not
\* exists), then resume-found; it is one of the three and is followed by
\* the identifier derived for the workspace's session name.
\* ------------------------------------------------------------------------
C2_DirectivePriority ==
    \A p \in Procs :
      LET r == proc[p]
          resume == Given(r, "--resume")
          force == Given(r, "--force")
          reset == Given(r, "--reset")
          exists == r.session_exists
      IN  HandedOff(r) =>
            /\ Len(r.claude_args) >= 2
            /\ r.claude_args[2] = ComputedId(r)
            /\ r.claude_args[1] \in { "--resume", "--session-id", "-r" }
            /\ resume => r.claude_args[1] = "--resume"
            /\ (~resume /\ (force \/ reset \/ ~exists))
                   => r.claude_args[1] = "--session-id"
            /\ (~resume /\ ~force /\ ~reset /\ exists)
                   => r.claude_args[1] = "-r"

\* resume wins over force although the identifier is known
C2_Witness ==
    \E p \in Procs :
      LET r == proc[p] IN
        /\ r.pc = "launched" /\ HandedOff(r)
        /\ Given(r, "--resume") /\ Given(r, "--force") /\ r.session_exists
        /\ Head2(r) = << "--resume", ComputedId(r) >>

\* ------------------------------------------------------------------------
\* C3 (Spec).  A session run with dry_run set leaves the registry file as
\* it was before the run and never launches claude, whatever the other
\* mode flags and the registry content.
\* ------------------------------------------------------------------------
C3_DryRunLeavesRegistry ==
    \A p \in Procs :
      LET r == proc[p] IN
        (r.dry_run /\ r.outcome = "RunSession") =>
            /\ file = r.before
            /\ r.pc \notin { "decide", "launch", "launched" }
            /\ r.claude_args = << >>

\* ------------------------------------------------------------------------
\* C4 (SpecReg).  As claimed: a session run with resume set forwards
\* "--resume", id and leaves the registry as it was before the run, for
\* every combination of the other flags and every registry content.
\* ------------------------------------------------------------------------
C4_ResumeLeavesRegistry ==
    \A p \in Procs :
      LET r == proc[p] IN
        (r.resume_mode /\ r.outcome = "RunSession") =>
            /\ file = r.before
            /\ HandedOff(r) => Head2(r) = << "--resume", ComputedId(r) >>

\* C4 as amended (SpecReg).  A session run with resume set forwards
\* "--resume", id and never appends to the registry: without reset the
\* registry is the one before the run at every step; with reset the run
\* removes the identifier and changes no other membership.
C4_ResumeNeverAppends ==
    \A p \in Procs :
      LET r == proc[p]
          id == ComputedId(r)
      IN  (r.resume_mode /\ r.outcome = "RunSession") =>
            /\ HandedOff(r) => Head2(r) = << "--resume", id >>
            /\ ~r.reset_mode => file = r.before
            /\ (r.reset_mode /\ RunOver(r))
                   => load_sessions(file) = load_sessions(r.before) \ { id }

\* resume with force in a workspace the registry does not know: handed
\* off, nothing appended
C4_Witness ==
    \E p \in Procs :
      LET r == proc[p] IN
        /\ r.pc = "launched" /\ HandedOff(r)
        /\ r.resume_mode /\ r.force_create /\ ~r.reset_mode
        /\ ComputedId(r) \notin load_sessions(r.before)
        /\ load_sessions(r.before) # { }
        /\ file = r.before

\* ------------------------------------------------------------------------
\* C5 (SpecReg).  With reset set and neither dry_run nor resume: exists is
\* false at the decision step whatever the registry held, the run takes
\* the create path, and when it hands off the registry holds the
\* identifier on exactly one line and every other identifier's membership
\* is as before the run.
\* ------------------------------------------------------------------------
C5_ResetThenCreateOnce ==
    \A p \in Procs :
      LET r == proc[p]
          id == ComputedId(r)
      IN  (r.reset_mode /\ ~r.dry_run /\ ~r.resume_mode
               /\ r.outcome = "RunSession") =>
            /\ r.pc = "decide" => ~r.session_exists
            /\ HandedOff(r) =>
                 /\ ~r.session_exists
                 /\ Head2(r) = << "--session-id", id >>
                 /\ EntryCount(file, id) = 1
                 /\ \A u \in Uuids \ { id } :
                      u \in load_sessions(file) <=> u \in load_sessions(r.before)

\* a reset run that found the identifier on two lines, with another
\* identifier next to it
C5_Witness ==
    \E p \in Procs :
      LET r == proc[p] IN
        /\ r.pc = "launched" /\ HandedOff(r)
        /\ r.reset_mode /\ ~r.resume_mode
        /\ EntryCount(r.before, ComputedId(r)) >= 2
        /\ EntryCount(file, ComputedId(r)) = 1

\* ------------------------------------------------------------------------
\* C6 (SpecReg).  Round trip on every registry file the program reaches:
\* after save(id) load contains id; after remove(id) it does not; remove
\* of an absent id leaves load unchanged and does not create the file.
\* (Every file the program reaches is the file of a state between two
\* invocations or right after remove_session or save_session; the round
\* trip is tried there.)
\* ------------------------------------------------------------------------
C6_RegistryRoundTrip ==
    LET loaded == load_sessions(file) IN
    (\E p \in Procs : proc[p].pc \in { "load", "launch" }
        \/ \A q \in Procs : proc[q].pc = "idle") =>
      \A id \in Uuids :
        LET saved == save_session(file, id)
            removed == remove_session(file, id)
            after == load_sessions(removed)
        IN  /\ id \in load_sessions(saved)
            /\ id \notin after
            /\ id \notin load_sessions(remove_session(saved, id))
            /\ id \notin loaded =>
                  /\ after = loaded
                  /\ removed.exists = file.exists

\* a reset run has removed its identifier from a file that keeps another
C6_Witness ==
    \E p \in Procs :
      LET r == proc[p] IN
        /\ r.pc = "load" /\ r.reset_mode
        /\ r.session_uuid \in load_sessions(r.before)
        /\ r.session_uuid \notin load_sessions(file)
        /\ load_sessions(file) # { }
        /\ file = remove_session(r.before, r.session_uuid)

\* ------------------------------------------------------------------------
\* C7 (SpecReg).  clear deletes the backing file: on a missing file it
\* reports "already empty" and the run succeeds; after clear, from any
\* registry, load is empty; a session run that starts from the cleared
\* registry sees exists = false.
\* ------------------------------------------------------------------------
C7_ClearEmptiesRegistry ==
    \A p \in Procs :
      LET r == proc[p] IN
        /\ (r.outcome = "ClearRegistry" /\ r.pc = "exited") =>
             /\ r.exit_code = 0
             /\ ~file.exists
             /\ load_sessions(file) = { }
             /\ r.report = IF r.before.exists
                           THEN "Session database cleared."
                           ELSE "Session database already empty."
        /\ (r.outcome = "RunSession" /\ ~r.before.exists
                /\ r.pc \in { "decide", "launch", "launched", "exited" })
             => ~r.session_exists

\* clear has deleted a registry that held sessions
C7_Witness ==
    \E p \in Procs :
      LET r == proc[p] IN
        /\ r.outcome = "ClearRegistry" /\ r.pc = "exited"
        /\ Cardinality(load_sessions(r.before)) >= 2
        /\ ~file.exists

\* ------------------------------------------------------------------------
\* C8 (Spec).  Under sequential use from an absent registry the backing
\* file never holds the same identifier on two lines.
\* ------------------------------------------------------------------------
C8_NoDuplicateLines ==
    LET ls == Lines(file.content)
    IN  \A j, k \in DOMAIN ls : j # k => Trim(ls[j]) # Trim(ls[k])

\* a forced run in a workspace whose identifier is one of three recorded
C8_Witness ==
    \E p \in Procs :
      LET r == proc[p] IN
        /\ r.pc = "launched" /\ HandedOff(r) /\ r.force_create
        /\ r.session_exists
        /\ Len(Lines(file.content)) = 3

\* ------------------------------------------------------------------------
\* Pass-through, stated on the command line
\* ------------------------------------------------------------------------
OwnModeFlags ==
    { "--dry-run", "-n", "--force", "-f", "--reset", "--resume", "-R" }

\* position k of the command line holds the value of a value-taking flag:
\* the token before it is a value flag that is not itself such a value
RECURSIVE IsValueOfFlag(_, _)
IsValueOfFlag(a, k) ==
    /\ k > 1
    /\ a[k - 1] \in CLAUDE_VALUE_FLAGS
    /\ ~IsValueOfFlag(a, k - 1)

\* the command line from position k on, without the tokens that are mode
\* flags and not the value of a value-taking flag
RECURSIVE WithoutModeFlags(_, _)
WithoutModeFlags(a, k) ==
    IF k > Len(a) THEN << >>
    ELSE (IF a[k] \in OwnModeFlags /\ ~IsValueOfFlag(a, k)
          THEN << >> ELSE << a[k] >>) \o WithoutModeFlags(a, k + 1)

\* ------------------------------------------------------------------------
\* C9 (SpecArgs).  As claimed: the downstream argument vector is the
\* directive, the identifier and then the input argument list with the
\* own-tool mode flags removed, nothing else added, dropped, rewritten or
\* reordered.
\* ------------------------------------------------------------------------
C9_PassThroughIsArgsMinusModeFlags ==
    \A p \in Procs :
      LET r == proc[p] IN
        HandedOff(r) =>
          /\ Head2(r) = << r.claude_args[1], ComputedId(r) >>
          /\ r.claude_args[1] \in { "--resume", "--session-id", "-r" }
          /\ r.claude_args =
               Head2(r) \o SelectSeq(r.args, LAMBDA t : t \notin OwnModeFlags)

\* C9 as amended (SpecArgs).  The downstream argument vector is the
\* directive, the identifier and then the pass-through vector, which is
\* the input argument list without its mode flags, except that the token
\* after a value-taking flag is that flag's value and stays even when it
\* spells a mode flag; order is the input's and every value-taking flag is
\* followed by the token that followed it in the input.
C9_PassThroughKeepsFlagValues ==
    \A p \in Procs :
      LET r == proc[p] IN
        HandedOff(r) =>
          /\ Head2(r) = << r.claude_args[1], ComputedId(r) >>
          /\ r.claude_args[1] \in { "--resume", "--session-id", "-r" }
          /\ r.claude_args = Head2(r) \o r.passthrough_args
          /\ r.passthrough_args = WithoutModeFlags(r.args, 1)
          /\ \A k \in DOMAIN r.passthrough_args :
               (r.passthrough_args[k] \in CLAUDE_VALUE_FLAGS
                  /\ ~IsValueOfFlag(r.passthrough_args, k))
                 => /\ k < Len(r.passthrough_args)
                    /\ \E j \in 1..(Len(r.args) - 1) :
                         /\ r.args[j] = r.passthrough_args[k]
                         /\ r.args[j + 1] = r.passthrough_args[k + 1]

\* -f is dropped, --reset after --model is the model's value and stays
C9_Witness ==
    \E p \in Procs :
      LET r == proc[p] IN
        /\ r.pc = "launched" /\ HandedOff(r)
        /\ r.args = << "-f", "--model", "--reset" >>
        /\ r.force_create /\ ~r.reset_mode
        /\ r.claude_args =
             << "--session-id", ComputedId(r), "--model", "--reset" >>

\* ------------------------------------------------------------------------
\* C10 (SpecArgs).  The iteration of the scan that classifies the token
\* "--session-id" ends the run with exit code 1: claude is not launched,
\* and the registry has not been opened or changed since the run began,
\* whatever mode flags came before and whatever tokens follow.
\* ------------------------------------------------------------------------
C10_SessionIdRejected ==
    [][ \A p \in Procs :
          ( /\ proc[p].pc = "scan"
            /\ proc[p].i <= Len(proc[p].args)
            /\ proc[p].args[proc[p].i] = "--session-id" )
          => /\ proc'[p].pc = "exited"
             /\ proc'[p].exit_code = 1
             /\ proc'[p].outcome = "Error"
             /\ proc'[p].claude_args = << >>
             /\ ~proc'[p].db_accessed
             /\ file' = file
             /\ file = proc[p].before ]_vars

\* "--reset --session-id x" in a workspace the registry knows: refused,
\* and the reset has not happened
C10_Witness ==
    \E p \in Procs :
      LET r == proc[p] IN
        /\ r.pc = "exited" /\ r.exit_code = 1 /\ r.outcome = "Error"
        /\ r.reset_mode
        /\ r.i < Len(r.args) /\ r.args[r.i] = "--session-id"
        /\ generate_uuid5(Err, "cs+main") \in load_sessions(file)
        /\ file = r.before

\* ------------------------------------------------------------------------
\* C11 (SpecCmd).  A command line whose first argument is a claude
\* subcommand name goes to claude whole and unmodified: the run is the
\* subcommand pass-through from its first step on, its downstream vector is
\* the argument list, no token is classified (the scan index never moves,
\* nothing is collected, later directives, "--session-id" and unknown
\* flags do nothing), no identifier is derived, the registry is neither
\* opened nor changed, and the only exit there can be is a failed launch.
\* A subcommand name anywhere else does not bypass: the run is scanned, and
\* the pass-through vector collected so far holds the subcommand names met
\* like the positional arguments, in order.
\* ------------------------------------------------------------------------
IsSubcommandLine(a) == Len(a) > 0 /\ a[1] \in CLAUDE_SUBCOMMANDS

C11_SubcommandBypass ==
    LET r == proc[1] IN
    r.pc # "idle" =>
      IF IsSubcommandLine(r.args)
      THEN /\ r.outcome = "Subcommand"
           /\ r.pc \in { "launch", "launched", "exited" }
           /\ r.claude_args = r.args
           /\ r.i = 1 /\ r.passthrough_args = << >>
           /\ r.session_uuid = "" /\ r.session_name = ""
           /\ ~r.db_accessed /\ file = r.before
           /\ r.pc = "exited" => r.exit_code \in { 127, 1 }
      ELSE /\ r.outcome # "Subcommand"
           /\ r.pc = "scan" =>
                 r.passthrough_args =
                     SelectSeq(SubSeq(r.args, 1, r.i - 1),
                               LAMBDA t : t \in CLAUDE_SUBCOMMANDS
                                             \cup { "hello" })

\* a subcommand line with a directive and "--session-id" behind the
\* subcommand has been handed to claude while the registry has an entry
C11_Witness ==
    LET r == proc[1] IN
    /\ r.pc = "launched"
    /\ r.args = << "mcp", "--clear", "--session-id" >>
    /\ r.claude_args = r.args
    /\ file.exists /\ load_sessions(file) # { }

\* ------------------------------------------------------------------------
\* C12 (SpecCmd).  When the first token of a scanned command line that is
\* a directive of cs (--help/-h, --version/-v, --list/-l, --clear,
\* upgrade/-U) has only mode flags and pass-through tokens before it, the
\* run is that directive and nothing else: it has exited at that token
\* whatever follows it (later directives and erroneous tokens included),
\* with exit code 0 (1 for an upgrade that failed), without a session run
\* (no identifier, no downstream vector), and the registry is as it was
\* before the run, or deleted when the directive is --clear, whatever mode
\* flags stood before the directive.
\* ------------------------------------------------------------------------
DirectiveOutcome(t) ==
    CASE t \in { "--help", "-h" } -> "Help"
      [] t \in { "--version", "-v" } -> "Version"
      [] t \in { "--list", "-l" } -> "ListRegistry"
      [] t = "--clear" -> "ClearRegistry"
      [] t \in { "upgrade", "-U" } -> "SelfUpdate"
      [] OTHER -> "none"

IsDirectiveToken(t) == DirectiveOutcome(t) # "none"

\* position of the first directive of command line a, 0 without one
FirstDirective(a) ==
    IF \E k \in DOMAIN a : IsDirectiveToken(a[k])
    THEN CHOOSE k \in DOMAIN a :
           /\ IsDirectiveToken(a[k])
           /\ \A j \in 1..(k - 1) : ~IsDirectiveToken(a[j])
    ELSE 0

\* tokens of the command spec after which the scan goes on
CmdContinues(t) == t \in CLAUDE_SUBCOMMANDS \cup { "hello", "--reset" }

C12_DirectiveShortCircuits ==
    LET r == proc[1]
        k == FirstDirective(r.args)
    IN
    ( /\ r.pc \notin { "idle", "scan" }
      /\ ~IsSubcommandLine(r.args)
      /\ k # 0
      /\ \A j \in 1..(k - 1) : CmdContinues(r.args[j]) )
    =>
      /\ r.outcome = DirectiveOutcome(r.args[k])
      /\ r.pc = "exited" /\ r.i = k
      /\ r.exit_code \in
           (IF r.outcome = "SelfUpdate" THEN { 0, 1 } ELSE { 0 })
      /\ r.session_uuid = "" /\ r.claude_args = << >>
      /\ IF r.outcome = "ClearRegistry"
         THEN ~file.exists
         ELSE file = r.before

\* "--reset --list --bogus" has ended as the list directive, listing an
\* entry of the registry
C12_Witness ==
    LET r == proc[1] IN
    /\ r.pc = "exited"
    /\ r.args = << "--reset", "--list", "--bogus" >>
    /\ r.outcome = "ListRegistry"
    /\ r.listed # { }

\* ------------------------------------------------------------------------
\* C13 (SpecErr).  A run is an Error exactly when its scan classifies an
\* unknown flag, an unknown key=value flag or "--session-id", or meets a
\* value flag that is the last token, or when the scan ends and the
\* working directory's name cannot be had.  Such a run has exited with
\* code 1, claude was given nothing, the registry was not opened and the
\* registry file is the file the run started with, also when --reset stood
\* before the offending token.  A run whose git lookup failed is no Error:
\* it is a session run named after the folder alone.
\* ------------------------------------------------------------------------
ErroneousTokens == { "--session-id", "--bogus", "--bogus=1" }

\* the scan of command line a meets an erroneous token, or a value flag
\* without a value
ScanFails(a) ==
    \/ \E k \in DOMAIN a : a[k] \in ErroneousTokens /\ ~IsValueOfFlag(a, k)
    \/ /\ Len(a) > 0
       /\ a[Len(a)] \in CLAUDE_VALUE_FLAGS
       /\ ~IsValueOfFlag(a, Len(a))

C13_ErrorsMutateNothing ==
    LET r == proc[1] IN
    /\ r.pc \notin { "idle", "scan" } =>
          (r.outcome = "Error" <=> ScanFails(r.args) \/ ~r.cwd.ok)
    /\ r.outcome = "Error" =>
          /\ r.pc = "exited" /\ r.exit_code = 1
          /\ r.claude_args = << >>
          /\ ~r.db_accessed
          /\ file = r.before
    /\ r.outcome = "RunSession" =>
          /\ r.is_git_repo = r.git.ok
          /\ r.session_name =
               (IF r.git.ok THEN r.cwd.val \o "+" \o r.git.val
                ELSE r.cwd.val)

\* "--reset --bogus" has ended in the Error in a workspace whose identifier
\* is in the registry
C13_Witness ==
    LET r == proc[1] IN
    /\ r.outcome = "Error" /\ r.pc = "exited"
    /\ r.args = << "--reset", "--bogus" >>
    /\ r.cwd.ok
    /\ ComputedId(r) \in load_sessions(file)

\* ------------------------------------------------------------------------
\* C14 (SpecId).  Two runs with the same namespace override, the same
\* folder name and the same branch (or both without a branch) have
\* computed the same identifier, whatever their mode flags, their
\* pass-through arguments and the registry they found; and once a run has
\* computed its identifier no step of the run changes it.
\* ------------------------------------------------------------------------
SameWorkspace(r, q) ==
    /\ r.cs_namespace = q.cs_namespace
    /\ r.cwd = q.cwd
    /\ r.git = q.git

C14_IdentifierDependsOnWorkspaceOnly ==
    /\ [](\A p, q \in { 1, 2 } :
            ( /\ proc[p].session_uuid # "" /\ proc[q].session_uuid # ""
              /\ SameWorkspace(proc[p], proc[q]) )
            => proc[p].session_uuid = proc[q].session_uuid)
    /\ [][\A p \in { 1, 2 } :
            (proc[p].session_uuid # "" /\ proc'[p].pc # "idle")
            => proc'[p].session_uuid = proc[p].session_uuid]_vars

\* two runs of one workspace under the namespace override, with different
\* command lines and different registries at their start, hold the same
\* identifier
C14_Witness ==
    /\ proc[1].pc = "launched" /\ proc[2].pc = "launched"
    /\ SameWorkspace(proc[1], proc[2])
    /\ proc[1].cs_namespace.ok
    /\ proc[1].args = << >> /\ proc[2].args = << "--force", "hello" >>
    /\ proc[1].before # proc[2].before
    /\ proc[1].session_uuid = proc[2].session_uuid
    /\ proc[1].session_uuid = "f97d24a9-0a9a-5140-b538-df2bf6d2a9d6"

\* ------------------------------------------------------------------------
\* C15 (SpecNs).  As claimed: a CS_NAMESPACE of 32 hex digits, with or
\* without hyphens and in either letter case, gives the run the namespace
\* those digits spell; any other value (wrong length, or a character that
\* is neither a hex digit nor a hyphen) is rejected and the run goes on
\* under the default namespace without an error.
\* ------------------------------------------------------------------------
HexDigitChars ==
    { "0", "1", "2", "3", "4", "5", "6", "7", "8", "9",
      "a", "b", "c", "d", "e", "f", "A", "B", "C", "D", "E", "F" }

RECURSIVE StripHyphens(_)
StripHyphens(t) ==
    IF Len(t) = 0 THEN ""
    ELSE (IF SubSeq(t, 1, 1) = "-" THEN "" ELSE SubSeq(t, 1, 1))
           \o StripHyphens(SubSeq(t, 2, Len(t)))

RECURSIVE LowerHex(_)
LowerHex(t) ==
    LET n == IndexOf("ABCDEF", SubSeq(t, 1, 1), 1)
    IN  IF Len(t) = 0 THEN ""
        ELSE (IF n = 0 THEN SubSeq(t, 1, 1) ELSE SubSeq("abcdef", n, n))
               \o LowerHex(SubSeq(t, 2, Len(t)))

\* 32 hex digits, with or without hyphens
IsUuidText(t) ==
    LET h == StripHyphens(t)
    IN  Len(h) = 32 /\ \A k \in 1..32 : SubSeq(h, k, k) \in HexDigitChars

\* the namespace a well-formed value spells
SpelledNamespace(t) ==
    CASE LowerHex(StripHyphens(t)) = "abcdef0123456789abcdef0123456789" ->
           CustomNamespace
      [] LowerHex(StripHyphens(t)) = "6ba7b8109dad11d180b400c04fd430c8" ->
           DEFAULT_NAMESPACE

\* the namespace the claim gives a run
ClaimedNamespace(v) ==
    IF v.ok /\ IsUuidText(v.val) THEN SpelledNamespace(v.val)
    ELSE DEFAULT_NAMESPACE

C15_NamespaceParsing ==
    LET r == proc[1] IN
    /\ r.pc \notin { "idle", "scan" } => r.outcome = "RunSession"
    /\ r.session_uuid # "" =>
          r.session_uuid =
              UuidOfDigest(Sha1Digest(ClaimedNamespace(r.cs_namespace),
                                      r.session_name))

\* ------------------------------------------------------------------------
\* C16 (SpecUuid).  Whatever the digest, the identifier generate_uuid5
\* returns is 36 characters: lowercase hex digits in groups of 8, 4, 4, 4
\* and 12 with a hyphen between the groups; the first character of the
\* third group is "5", the first of the fourth group is 8, 9, a or b; and
\* read back as 16 bytes it is the first 16 bytes of the digest except for
\* the high four bits of byte 6 and the high two bits of byte 8.
\* ------------------------------------------------------------------------
LowerHexChars == "0123456789abcdef"

HyphenPositions == { 9, 14, 19, 24 }

\* the 16 bytes an identifier spells
BytesOfIdentifier(u) ==
    LET h == StripHyphens(u)
    IN  [ k \in 1..16 |->
            16 * (IndexOf(LowerHexChars, SubSeq(h, 2 * k - 1, 2 * k - 1), 1)
                    - 1)
              + (IndexOf(LowerHexChars, SubSeq(h, 2 * k, 2 * k), 1) - 1) ]

C16_RenderedIdentifier ==
    LET r == proc[1]
        u == r.session_uuid
        b == BytesOfIdentifier(u)
    IN
    r.outcome = "Derived" =>
      /\ Len(u) = 36
      /\ \A k \in 1..36 :
            IF k \in HyphenPositions THEN SubSeq(u, k, k) = "-"
            ELSE IndexOf(LowerHexChars, SubSeq(u, k, k), 1) # 0
      /\ SubSeq(u, 15, 15) = "5"
      /\ SubSeq(u, 20, 20) \in { "8", "9", "a", "b" }
      /\ \A k \in (1..16) \ { 7, 9 } : b[k] = r.hash[k]
      /\ b[7] % 16 = r.hash[7] % 16
      /\ b[9] % 64 = r.hash[9] % 64

\* the identifier of a digest whose version and variant bits were all set
\* and all clear
C16_Witness ==
    LET r == proc[1] IN
    /\ r.outcome = "Derived"
    /\ r.hash[7] = 255 /\ r.hash[9] = 0 /\ r.hash[1] = 17
    /\ r.session_uuid = "11223344-5566-5f88-80aa-bbccddeeff10"

\* ------------------------------------------------------------------------
\* C17 (SpecMode).  On command lines of mode flags, claude boolean flags
\* and positionals the scan never stops: after its first n tokens
\* each of the four booleans is true exactly when one of the spellings of
\* its flag is among those n tokens (so order and repetition make no
\* difference), and the pass-through vector is those n tokens without the
\* mode flags, in order.  The booleans and the vector stay so for the rest
\* of the run, and the vector handed to claude holds no mode flag after
\* the directive and the identifier.
\* ------------------------------------------------------------------------
ModeSpellings ==
    [ dry_run |-> { "--dry-run", "-n" },
      force_create |-> { "--force", "-f" },
      reset_mode |-> { "--reset" },
      resume_mode |-> { "--resume", "-R" } ]

AllModeSpellings == UNION { ModeSpellings[m] : m \in DOMAIN ModeSpellings }

C17_ModeFlagsSetBooleans ==
    LET r == proc[1]
        scanned == IF r.pc = "scan" THEN SubSeq(r.args, 1, r.i - 1)
                   ELSE r.args
    IN
    r.pc # "idle" =>
      /\ r.outcome # "Error"
      /\ \A m \in DOMAIN ModeSpellings :
            r[m] <=> (Range(scanned) \cap ModeSpellings[m] # { })
      /\ r.passthrough_args =
            SelectSeq(scanned, LAMBDA t : t \notin AllModeSpellings)
      /\ r.claude_args # << >> =>
            /\ SubSeq(r.claude_args, 3, Len(r.claude_args))
                 = r.passthrough_args
            /\ Range(SubSeq(r.claude_args, 3, Len(r.claude_args)))
                 \cap AllModeSpellings = { }

\* the scan of "--reset -f" is over: reset and force set, nothing passed on
C17_Witness ==
    LET r == proc[1] IN
    /\ r.pc = "launched"
    /\ r.args = << "--reset", "-f" >>
    /\ r.reset_mode /\ r.force_create /\ ~r.dry_run /\ ~r.resume_mode
    /\ r.passthrough_args = << >>

\* ------------------------------------------------------------------------
\* C18 (SpecArgs).  The iteration of the scan that classifies a value flag
\* of claude with a token after it appends the flag and that token, as they
\* are, to the pass-through vector and goes on behind the two: whatever the
\* second token is (a directive, a mode flag, "--session-id", an unknown
\* flag) it sets no mode, ends nothing and touches no registry.  When the
\* value flag is the last token the iteration ends the run with exit code
\* 1: claude is not launched and the registry has not been opened or
\* changed since the run began.
\* ------------------------------------------------------------------------
C18_ValueFlagTakesNextToken ==
    [][ LET r == proc[1]
            q == proc'[1]
        IN
        ( /\ r.pc = "scan"
          /\ r.i <= Len(r.args)
          /\ r.args[r.i] \in CLAUDE_VALUE_FLAGS )
        => IF r.i < Len(r.args)
           THEN /\ q = [ r EXCEPT
                           !.passthrough_args =
                               r.passthrough_args
                                 \o << r.args[r.i], r.args[r.i + 1] >>,
                           !.i = r.i + 2 ]
                /\ file' = file
           ELSE /\ q.pc = "exited" /\ q.exit_code = 1
                /\ q.outcome = "Error"
                /\ q.claude_args = << >>
                /\ ~q.db_accessed
                /\ file' = file
                /\ file = r.before ]_vars

\* "--model --clear hello" has been handed to claude with "--clear" as the
\* model and the registry still there
C18_Witness ==
    LET r == proc[1] IN
    /\ r.pc = "launched"
    /\ r.args = << "--model", "--clear", "hello" >>
    /\ SubSeq(r.claude_args, 3, 5) = r.args
    /\ r.outcome = "RunSession"
    /\ ComputedId(r) \in load_sessions(file)

\* ------------------------------------------------------------------------
\* C19 (SpecTok).  The iteration of the scan that classifies a token
\* holding "=" (none of them is a flag of cs or an exact flag of claude)
\* looks at the text before the first "=": when that is a boolean or value
\* flag of claude the whole token becomes one more element of the
\* pass-through vector and the scan goes on with the very next token;
\* otherwise the run ends with exit code 1, claude not launched and the
\* registry neither opened nor changed - also for "--session-id=x" and
\* "--force=x".
\* ------------------------------------------------------------------------
\* the text of t before its first "="
KeyOf(t) ==
    LET n == CHOOSE n \in 1..Len(t) :
                 /\ SubSeq(t, n, n) = "="
                 /\ \A m \in 1..(n - 1) : SubSeq(t, m, m) # "="
    IN  SubSeq(t, 1, n - 1)

HoldsEquals(t) == \E n \in 1..Len(t) : SubSeq(t, n, n) = "="

\* the scan of r is about to classify a token
AtToken(r) == r.pc = "scan" /\ r.i <= Len(r.args)

\* the iteration from r to q has appended token r.args[r.i], and only that
Appended(r, q) ==
    q = [ r EXCEPT !.passthrough_args = Append(r.passthrough_args,
                                                r.args[r.i]),
                   !.i = r.i + 1 ]

\* the iteration to q has ended the run in an Error
Refused(q) ==
    /\ q.pc = "exited" /\ q.exit_code = 1 /\ q.outcome = "Error"
    /\ q.claude_args = << >>
    /\ ~q.db_accessed

C19_KeyValueTokens ==
    [][ LET r == proc[1]
            q == proc'[1]
        IN
        (AtToken(r) /\ HoldsEquals(r.args[r.i]))
        => /\ file' = file
           /\ IF KeyOf(r.args[r.i])
                   \in CLAUDE_BOOL_FLAGS \cup CLAUDE_VALUE_FLAGS
              THEN Appended(r, q)
              ELSE Refused(q) /\ file = r.before ]_vars

\* "--model=a=b --reset" has been handed to claude as a reset run with the
\* one token passed through
C19_Witness ==
    LET r == proc[1] IN
    /\ r.pc = "launched" /\ r.outcome = "RunSession"
    /\ r.args = << "--model=a=b", "--reset" >>
    /\ r.reset_mode
    /\ r.claude_args = << "--session-id", ComputedId(r), "--model=a=b" >>

\* ------------------------------------------------------------------------
\* C20 (SpecTok).  As claimed: the iteration of the scan that classifies a
\* token not starting with "-" appends it to the pass-through vector and
\* goes on, whatever the token holds; none produces an Error.
\* ------------------------------------------------------------------------
C20_PositionalNeverFails ==
    [][ LET r == proc[1]
            q == proc'[1]
        IN
        (AtToken(r) /\ ~StartsWith(r.args[r.i], "-")) => Appended(r, q) ]_vars

\* ------------------------------------------------------------------------
\* C20 amended (SpecTok).  The iteration of the scan that classifies a
\* token not starting with "-" appends it to the pass-through vector and
\* goes on, unless the token is "upgrade" (the self-update directive: the
\* run ends there) or holds "=" (it goes to the key=value rule, and since
\* no flag of claude is without a leading "-" the run ends in an Error with
\* exit code 1, nothing launched, the registry untouched).
\* ------------------------------------------------------------------------
C20_PositionalUnlessUpgradeOrEquals ==
    [][ LET r == proc[1]
            q == proc'[1]
            t == r.args[r.i]
        IN
        (AtToken(r) /\ ~StartsWith(t, "-"))
        => IF t = "upgrade"
           THEN q.pc = "exited" /\ q.outcome = "SelfUpdate"
                  /\ q.exit_code \in { 0, 1 } /\ file' = file
           ELSE IF HoldsEquals(t)
           THEN Refused(q) /\ file' = file /\ file = r.before
           ELSE Appended(r, q) /\ file' = file ]_vars

\* "hello mcp" has been handed to claude behind the directive and the
\* identifier
C20_Witness ==
    LET r == proc[1] IN
    /\ r.pc = "launched" /\ r.outcome = "RunSession"
    /\ r.args = << "hello", "mcp" >>
    /\ SubSeq(r.claude_args, 3, 4) = r.args

\* ------------------------------------------------------------------------
\* C21 (SpecReg).  In a session run that is not a dry run the status label
\* printed and the directive chosen agree: "resume-with-picker" goes with
\* "--resume" and with nothing else, "exists" with "-r", "new" and
\* "force-create" with "--session-id"; and among the runs that create,
\* the label is "new" exactly when the identifier was not in the registry
\* and neither --force nor --reset was given.  The step that chooses the
\* directive appends the identifier's line to the registry file exactly
\* when it chooses "--session-id" with the identifier not in the registry,
\* and otherwise leaves the file alone.
\* ------------------------------------------------------------------------
C21_StatusAgreesWithAction ==
    /\ [](LET r == proc[1]
              label == r.status_display
              d == r.claude_args[1]
          IN  HandedOff(r) =>
                /\ label \in { "resume-with-picker", "exists", "new",
                                "force-create" }
                /\ label = "resume-with-picker" <=> d = "--resume"
                /\ label = "exists" <=> d = "-r"
                /\ label \in { "new", "force-create" } <=> d = "--session-id"
                /\ d = "--session-id" =>
                      (label = "new" <=>
                         /\ ~r.session_exists
                         /\ ~r.force_create /\ ~r.reset_mode))
    /\ [][ LET r == proc[1]
               q == proc'[1]
           IN  r.pc = "decide" =>
                 IF q.claude_args[1] = "--session-id" /\ ~r.session_exists
                 THEN file' = [ exists |-> TRUE,
                                content |-> file.content \o r.session_uuid
                                              \o "\n" ]
                 ELSE file' = file ]_vars

\* a forced run in a workspace the registry knows: labelled
\* "force-create", handed "--session-id", its line not written twice
C21_Witness ==
    LET r == proc[1] IN
    /\ r.pc = "launched"
    /\ r.args = << "--force" >>
    /\ r.session_exists
    /\ r.status_display = "force-create"
    /\ r.claude_args[1] = "--session-id"
    /\ EntryCount(file, r.session_uuid) = 1

\* ------------------------------------------------------------------------
\* C22
\* ------------------------------------------------------------------------
\* process p took the create path and handed off, and the database file
\* does not hold its identifier
Lost(p) ==
    LET r == proc[p]
    IN  /\ HandedOff(r)
        /\ r.claude_args[1] = "--session-id"
        /\ r.session_uuid \notin load_sessions(file)

\* process q is a reset run whose remove_session has rewritten the file
RewroteFile(q) ==
    LET r == proc[q]
    IN  /\ r.reset_mode
        /\ r.outcome = "RunSession"
        /\ r.pc \in { "load", "decide", "launch", "launched", "exited" }

\* C22: the database file gives no isolation between concurrent
\* invocations.  Two invocations for different identifiers run at the same
\* time and no clear happens: a created and handed-off identifier can be
\* missing from the file (the witness), and whenever it is missing the other
\* invocation is a reset run for its own, different identifier that has
\* rewritten the file from the content it read earlier.
C22_LostUpdateOnlyByRace ==
    \A p \in { 1, 2 } :
        Lost(p) =>
            LET q == 3 - p
            IN  /\ RewroteFile(q)
                /\ proc[q].session_uuid # proc[p].session_uuid

\* both invocations handed off to claude; the first created its session
\* without any reset, the second reset another identifier, and the first
\* one's identifier is not in the file
C22_Witness ==
    /\ proc[1].pc = "launched" /\ proc[2].pc = "launched"
    /\ proc[1].args = << >>
    /\ proc[2].args = << "--reset" >>
    /\ ~proc[1].session_exists
    /\ Lost(1)
    /\ proc[2].session_uuid \in load_sessions(file)

\* ------------------------------------------------------------------------
\* C23
\* ------------------------------------------------------------------------
\* identifier id is stored in database file f, on however many lines
Stored(f, id) == EntryCount(f, id) >= 1

\* C23: the registry behaves as a set whatever the number of lines that hold
\* an identifier.  With two invocations at a time in one workspace (which
\* can both append the identifier): the exists decision and the status label
\* of a run depend only on whether the identifier is stored at all, the
\* directive follows that decision, --list reports exactly the stored
\* identifiers, each once, and the rewrite of a reset leaves no copy of the
\* identifier.
C23_SetSemantics ==
    /\ [](\A p \in { 1, 2 } :
            LET r == proc[p]
            IN  /\ HandedOff(r) =>
                       r.claude_args[1] =
                           Directive(r.resume_mode, r.force_create,
                                     r.reset_mode, r.session_exists)
                /\ r.outcome = "ListRegistry" =>
                       Cardinality(r.listed) <= 1)
    /\ [][ \A p \in { 1, 2 } :
             LET r == proc[p]
                 q == proc'[p]
             IN  /\ r.pc = "load" /\ q.pc # "load" =>
                        /\ q.session_exists = Stored(file, r.session_uuid)
                        /\ q.status_display =
                               StatusDisplay(r.resume_mode, r.force_create,
                                             r.reset_mode,
                                             Stored(file, r.session_uuid))
                 /\ r.pc = "scan" /\ q.outcome = "ListRegistry" =>
                        q.listed = { id \in Uuids : Stored(file, id) }
                 /\ r.pc = "remove_write" /\ q.pc # "remove_write" =>
                        EntryCount(file', r.session_uuid) = 0 ]_vars

\* two invocations appended the same identifier, and a later run finds it
\* and resumes
C23_Witness ==
    LET r == proc[1]
    IN  /\ r.pc = "launched"
        /\ r.args = << >>
        /\ EntryCount(file, r.session_uuid) = 2
        /\ r.session_exists
        /\ r.status_display = "exists"
        /\ r.claude_args[1] = "-r"

\* ------------------------------------------------------------------------
\* C24
\* ------------------------------------------------------------------------
\* save_session of the identifiers of ids, in order
RECURSIVE SaveAll(_, _)
SaveAll(f, ids) ==
    IF ids = << >> THEN f
    ELSE SaveAll(save_session(f, Head(ids)), Tail(ids))

\* the sequences of distinct identifiers
DistinctIds ==
    { ids \in UNION { [ 1..n -> Uuids ] : n \in 0..Cardinality(Uuids) } :
        \A j, k \in DOMAIN ids : j # k => ids[j] # ids[k] }

\* an append to database file f starts on a line of its own
EndsWithNewline(f) ==
    f.content = "" \/ SubSeq(f.content, Len(f.content), Len(f.content)) = "\n"

\* the registry after saving distinct identifiers into an empty one
SaveAllGivesExactlyThose ==
    \A ids \in DistinctIds,
       empty \in { NoFile, [ exists |-> TRUE, content |-> "" ] } :
        /\ load_sessions(SaveAll(empty, ids)) = Range(ids)
        /\ Cardinality(load_sessions(SaveAll(empty, ids))) = Len(ids)

\* C24: remove_session(id) takes id out of the registry and changes the
\* membership of no other identifier, whatever the lines of the file look
\* like (blank lines, padded lines, "\r\n" endings, no final newline); a
\* missing file stays missing.  Saving k distinct identifiers into an empty
\* registry gives a registry of exactly those k members, and every single
\* save into a file that ends with a newline adds its identifier and
\* nothing else.
C24_RemoveFrameSaveAccumulates ==
    /\ [](SaveAllGivesExactlyThose)
    /\ [][ LET r == proc[1]
               id == r.session_uuid
           IN  /\ r.pc = "remove_write" =>
                      /\ r.content = file.content
                      /\ id \notin load_sessions(file')
                      /\ \A other \in (load_sessions(file) \cup load_sessions(file')) \ { id } :
                             other \in load_sessions(file') <=> other \in load_sessions(file)
               /\ r.pc = "remove_read" /\ ~file.exists => file' = NoFile
               /\ r.pc = "decide" /\ file' # file /\ EndsWithNewline(file) =>
                      load_sessions(file') = load_sessions(file) \cup { id } ]_vars

\* a reset has rewritten a file with a padded line for its identifier, a
\* blank line and an indented last line for another identifier without a
\* final newline: the other identifier alone is left
C24_Witness ==
    LET r == proc[1]
        id == generate_uuid5(Err, "cs+main")
        other == generate_uuid5(Err, "cs")
    IN  /\ r.pc = "load"
        /\ r.reset_mode
        /\ r.before = [ exists |-> TRUE, content |-> " " \o id \o " \n\t" \o other ]
        /\ load_sessions(r.before) = { id, other }
        /\ file.content = "\t" \o other \o "\n"
        /\ load_sessions(file) = { other }

\* ------------------------------------------------------------------------
\* C25
\* ------------------------------------------------------------------------
\* clear_sessions of the run failed with an error other than NotFound
ClearFailed(r) ==
    r.outcome = "ClearRegistry" /\ r.report = "Error clearing database"

\* with the database file refused, load_sessions yields the empty set,
\* save_session and remove_session leave the file alone, and the run goes
\* on to the launch
DegradesSilently ==
    LET r == proc[1]
        q == proc'[1]
    IN  /\ r.pc = "load" /\ OpenFails(r) =>
               /\ ~q.session_exists
               /\ q.pc = "decide"
               /\ file' = file
        /\ r.pc = "decide" /\ WriteFails(r) =>
               /\ q.pc = "launch"
               /\ file' = file
        /\ r.pc \in { "remove_read", "remove_write" } /\ r.fault # "none" =>
               /\ q.pc \in { "remove_write", "load" }
               /\ file' = file
        /\ r.pc = "scan" /\ q.outcome = "ListRegistry" /\ OpenFails(r) =>
               /\ q.listed = { }
               /\ q.exit_code = 0
               /\ file' = file

\* C25: a failure of clear other than not-found ends the run with an error
\* outcome, not with success, and leaves the registry as it was; failures of
\* load, save and remove are silent (load yields the empty set, save and
\* remove do nothing) and never end or fail the run.
C25_FailureSemantics ==
    /\ [](LET r == proc[1]
          IN  ClearFailed(r) =>
                  /\ r.exit_code # 0
                  /\ file = r.before)
    /\ [][DegradesSilently]_vars

\* ------------------------------------------------------------------------
\* C26
\* ------------------------------------------------------------------------
\* the session run ended in a launch error: claude not found (127) or
\* another failure of the launch (1)
LaunchFailed(r) ==
    HandedOff(r) /\ r.pc = "exited" /\ r.exit_code \in { 127, 1 }

\* the registry a session run leaves behind, from the one it found: the
\* identifier is taken out by a reset and put in by the create path
RegistryAfterRun(r) ==
    ((IF r.reset_mode THEN load_sessions(r.before) \ { r.session_uuid }
                      ELSE load_sessions(r.before))
       \cup (IF r.claude_args[1] = "--session-id"
             THEN { r.session_uuid } ELSE { }))

\* C26 (as claimed): a session run that ends in a launch error leaves the
\* registry as it was before the run, so that the identifier of a session
\* that was never created is not in it.
C26_LaunchErrorLeavesRegistry ==
    [][ LET r == proc'[1]
        IN  proc[1].pc = "launch" /\ LaunchFailed(r) => file' = r.before ]_vars

\* C26 (amended): the identifier is recorded before the launch and the
\* launch, whatever its result, leaves the database file alone; after a
\* session run that ended in a launch error the registry is the one every
\* run on the create path leaves, with the identifier in it.
C26_SavedBeforeLaunch ==
    [][ \A p \in { 1, 2 } :
          LET r == proc'[p]
          IN  proc[p].pc = "launch" =>
                  /\ file' = file
                  /\ LaunchFailed(r) =>
                         /\ load_sessions(file') = RegistryAfterRun(r)
                         /\ r.claude_args[1] = "--session-id" =>
                                r.session_uuid \in load_sessions(file') ]_vars

\* the first run found no entry, chose the create path and could not start
\* claude (exit 127); the run after it, in the same workspace, finds the
\* entry and starts claude with -r
C26_Witness ==
    LET r == proc[1]
        q == proc[2]
    IN  /\ LaunchFailed(r) /\ r.exit_code = 127
        /\ r.args = << >>
        /\ ~r.session_exists
        /\ r.before = NoFile
        /\ q.pc = "launched"
        /\ q.args = << >>
        /\ q.session_uuid = r.session_uuid
        /\ q.before = save_session(NoFile, r.session_uuid)
        /\ q.claude_args[1] = "-r"

\* ------------------------------------------------------------------------
\* C27
\* ------------------------------------------------------------------------
\* the positions of sequence a that hold "--session-id"
SessionIdPositions(a) == { k \in DOMAIN a : a[k] = "--session-id" }

\* C27 (SpecArgs).  As claimed: in a session run that reaches claude,
\* "--session-id" is in the downstream argument vector at most once and only
\* as its first element; no "--session-id" of the command line, in any
\* position, reaches the pass-through vector.
C27_SessionIdOnlyAsDirective ==
    LET r == proc[1]
    IN  HandedOff(r) =>
            /\ SessionIdPositions(r.claude_args) \subseteq { 1 }
            /\ SessionIdPositions(r.passthrough_args) = { }

\* C27 amended (SpecArgs).  In a session run that reaches claude, every
\* "--session-id" of the command line stands right after a value-taking
\* flag as that flag's value, and is passed through verbatim with it; a
\* "--session-id" in any other position ends the run in an Error.  So the
\* downstream argument vector holds "--session-id" as its first element
\* only when it is the directive cs chose, never as its second, and
\* elsewhere only as the value of the value-taking flag before it.
C27_SessionIdOnlyAsDirectiveOrValue ==
    LET r == proc[1]
    IN  HandedOff(r) =>
            /\ \A k \in SessionIdPositions(r.args) : IsValueOfFlag(r.args, k)
            /\ r.claude_args[1] = "--session-id" =>
                   ~r.resume_mode
                   /\ (r.force_create \/ r.reset_mode \/ ~r.session_exists)
            /\ r.claude_args[2] = r.session_uuid
            /\ \A k \in SessionIdPositions(r.passthrough_args) :
                   /\ IsValueOfFlag(r.passthrough_args, k)
                   /\ r.claude_args[k + 2] = "--session-id"
                   /\ r.claude_args[k + 1] \in CLAUDE_VALUE_FLAGS
            /\ Cardinality(SessionIdPositions(r.passthrough_args))
                   = Cardinality(SessionIdPositions(r.args))

\* cs --model --session-id: claude is started with the directive
\* --session-id, the identifier, and --model --session-id after them
C27_Witness ==
    LET r == proc[1]
    IN  /\ r.pc = "launched"
        /\ r.args = << "--model", "--session-id" >>
        /\ r.claude_args =
               << "--session-id", r.session_uuid, "--model", "--session-id" >>

\* ------------------------------------------------------------------------
\* C28
\* ------------------------------------------------------------------------
\* the workspace context of a run: folder name and branch, if any
Context(r) == << r.cwd.val, r.git >>

\* the run has composed its session name
Named(r) == r.outcome = "RunSession"

\* folder and branch names with and without "+"
NameStrings == { "a", "b", "a+b", "b+a", "a+", "+a", "+" }

\* contexts over NameStrings whose folder name holds no "+" never share a
\* session name
NamesInjectiveWithoutPlus ==
    \A d1, d2 \in { d \in NameStrings : ~StrContains(d, "+") } :
        \A g1, g2 \in { Ok(b) : b \in NameStrings } \cup { Err } :
            SessionName(d1, g1) = SessionName(d2, g2) => d1 = d2 /\ g1 = g2

\* C28 (SpecName).  As claimed: two runs whose contexts differ in folder
\* name, in branch name or in whether there is a branch never have the same
\* session name, hence never the same identifier and registry entry, the
\* names being any non-empty strings, "+" included.
C28_SessionNameInjective ==
    LET r == proc[1]
        q == proc[2]
    IN  Named(r) /\ Named(q) /\ Context(r) # Context(q) =>
            /\ r.session_name # q.session_name
            /\ r.session_uuid # q.session_uuid

\* C28 amended (SpecName).  Two runs whose folder names hold no "+" and
\* whose contexts differ never have the same session name or identifier,
\* whatever the branch names hold; a folder name with "+" in it can give the
\* session name of another context.  Two runs have the same identifier
\* exactly when they have the same session name.
C28_InjectiveWithoutPlusInFolder ==
    LET r == proc[1]
        q == proc[2]
    IN  /\ NamesInjectiveWithoutPlus
        /\ Named(r) /\ Named(q) =>
               /\ r.session_name = q.session_name
                      <=> r.session_uuid = q.session_uuid
               /\ (/\ Context(r) # Context(q)
                   /\ ~StrContains(r.cwd.val, "+")
                   /\ ~StrContains(q.cwd.val, "+"))
                      => r.session_name # q.session_name

\* a run in folder cs on branch main+main and a later run in folder cs on
\* branch main: different names, different identifiers, and the later run
\* does not find the entry of the first
C28_Witness ==
    LET r == proc[1]
        q == proc[2]
    IN  /\ r.pc = "launched" /\ q.pc = "launched"
        /\ r.cwd = Ok("cs") /\ r.git = Ok("main+main")
        /\ q.cwd = Ok("cs") /\ q.git = Ok("main")
        /\ r.session_name = "cs+main+main"
        /\ q.session_name = "cs+main"
        /\ r.session_uuid # q.session_uuid
        /\ r.session_uuid \in load_sessions(q.before)
        /\ ~q.session_exists
====
